---- MODULE Spec2Model ----
(***************************************************************************)
(* Model of cleanlab/data_valuation.py: data_shapley_knn, the KNN-graph    *)
(* construction it delegates to, and the scoring loop _knn_shapley_score.  *)
(*                                                                         *)
(* Points are numbered 1..N here (0..N-1 in the code); positions inside a  *)
(* Python sequence stay 0-based and are read through PyAt, which also      *)
(* gives Python's meaning to a negative position.  Scores are exact        *)
(* rationals [num, den]; a zero den stands for numpy's nan (num = 0) and   *)
(* inf (num = 1), which the code produces when it divides by k = 0.        *)
(***************************************************************************)
EXTENDS Integers, Sequences, FiniteSets

VARIABLES labels, knn_graph, features, metric, k, pc, scores, i, visited, result, error

vars == <<labels, knn_graph, features, metric, k, pc, scores, i, visited, result, error>>

\* ---------------------------------------------------------------- bounds

\* Largest number of data points N of a call.
MaxN == 3
\* 1-D feature values are drawn from 0..MaxCoord.
MaxCoord == 2
\* k is drawn from -MaxNegK .. (largest legal k) + 1.
MaxNegK == 1

\* ---------------------------------------------------------------- values

\* Python's None, for an argument not passed and a result not produced.
None == <<>>

\* Label vectors, one per pattern of equalities: the code only ever compares
\* labels with ==, so a vector stands for all its renamings.
LabelVectors(N) ==
  {l \in [1..N -> 0..(N - 1)] :
     /\ l[1] = 0
     /\ \A a \in 2..N : \E b \in 1..(a - 1) : l[a] <= l[b] + 1}

\* Sequences of w distinct points of S.
DistinctSeqs(S, w) ==
  {r \in [1..w -> S] : \A a, b \in 1..w : a # b => r[a] # r[b]}

RECURSIVE GraphsFrom(_, _, _)
\* All graphs whose row q (for q = 1..n) is drawn from Rows[q].
GraphsFrom(Rows, n, upto) ==
  IF upto = 0 THEN {<<>>}
  ELSE {Append(g, r) : g \in GraphsFrom(Rows, n, upto - 1), r \in Rows[upto]}

\* knn_graph.indices.reshape(N, -1) of a caller's graph: N rows of w distinct
\* neighbours, none the row's own point.
NeighborGraphs(N, w) ==
  GraphsFrom([q \in 1..N |-> DistinctSeqs((1..N) \ {q}, w)], N, N)

\* ---------------------------------------------------------------- helpers

Reverse(s) == [j \in 1..Len(s) |-> s[Len(s) + 1 - j]]

\* Whether Python accepts position n of a sequence of length len.
PyIndexOK(n, len) == (0 - len) <= n /\ n <= len - 1

\* s[n] as Python reads it, n 0-based, a negative n counted from the end.
PyAt(s, n) == IF n >= 0 THEN s[n + 1] ELSE s[Len(s) + n + 1]

RowWidth(g) == Len(g[1])

NaN == [num |-> 0, den |-> 0]

Inf == [num |-> 1, den |-> 0]

\* ---------------------------------------------------------------- scoring

\* idx = dist_i[::-1]
Idx(dist_i) == Reverse(dist_i)

\* AnsMatches with the comparison inverted (ans != y).
AnsMatchesInverted(dist_i, y, lbl) ==
  [j \in 1..Len(dist_i) |-> IF lbl[Reverse(dist_i)[j]] = y THEN 0 ELSE 1]

\* BaseCase writing s[k - 1] in place of s[idx[k - 1]].
BaseCaseAbsolute(s, idx, m, kk) == [s EXCEPT ![kk] = PyAt(m, kk - 1)]

\* LoopStep adding the two indicators in place of their difference.
LoopStepSignSlip(s, idx, m, j) ==
  [s EXCEPT ![PyAt(idx, j)] = s[PyAt(idx, j + 1)] + (PyAt(m, j) + PyAt(m, j + 1))]

\* LoopStep reading the entry it writes in place of the next-closer neighbour's.
LoopStepReadsSelf(s, idx, m, j) ==
  [s EXCEPT ![PyAt(idx, j)] = s[PyAt(idx, j)] + (PyAt(m, j) - PyAt(m, j + 1))]

\* int(ans_matches[j]) for every position of idx: ans = labels[idx], ans == y.
AnsMatches(dist_i, y, lbl) ==
  [j \in 1..Len(dist_i) |-> IF lbl[Idx(dist_i)[j]] = y THEN 1 ELSE 0]

\* s[idx[k - 1]] = float(ans[k - 1] == y)
BaseCase(s, idx, m, kk) == [s EXCEPT ![PyAt(idx, kk - 1)] = PyAt(m, kk - 1)]

\* s[idx[j]] = s[idx[j + 1]] + float(int(ans_matches[j]) - int(ans_matches[j + 1]))
LoopStep(s, idx, m, j) ==
  [s EXCEPT ![PyAt(idx, j)] = s[PyAt(idx, j + 1)] + (PyAt(m, j) - PyAt(m, j + 1))]

RECURSIVE RowLoopStopsEarly(_, _, _, _)
\* RowLoop over range(k - 2, 0, -1): position 0 is never assigned.
RowLoopStopsEarly(s, idx, m, j) ==
  IF j < 1 THEN s
  ELSE RowLoopStopsEarly(
         [s EXCEPT ![PyAt(idx, j)] = s[PyAt(idx, j + 1)] + (PyAt(m, j) - PyAt(m, j + 1))],
         idx, m, j - 1)

RECURSIVE RowLoop(_, _, _, _)
\* for j in range(k - 2, -1, -1): entered with j = k - 2.
RowLoop(s, idx, m, j) ==
  IF j < 0 THEN s ELSE RowLoop(LoopStep(s, idx, m, j), idx, m, j - 1)

\* One iteration of the outer loop over zip(labels, scores, dist).
RowPass(s, dist_i, y, lbl, kk) ==
  LET idx == Idx(dist_i)
      m == AnsMatches(dist_i, y, lbl)
  IN RowLoop(BaseCase(s, idx, m, kk), idx, m, kk - 2)

\* The points whose entry one iteration assigns, in the order it assigns them.
WrittenIdx(dist_i, kk) ==
  LET idx == Idx(dist_i)
      n == IF kk >= 2 THEN kk - 1 ELSE 0
  IN <<PyAt(idx, kk - 1)>> \o [a \in 1..n |-> PyAt(idx, kk - 1 - a)]

RECURSIVE ColSum(_, _, _)
\* Sum of column p over rows 1..q.
ColSum(sc, p, q) == IF q = 0 THEN 0 ELSE ColSum(sc, p, q - 1) + sc[q][p]

\* Calibrate without the factor 0.5.
CalibrateNoHalf(colsum, kk, N) == [num |-> colsum + kk * N, den |-> kk * N]

\* Calibrate of np.mean(scores), the division by k forgotten.
CalibrateMeanOnly(colsum, kk, N) == [num |-> colsum + N, den |-> 2 * N]

\* 0.5 * (mean + 1) with mean = colsum / k / N, for k # 0.
Calibrate(colsum, kk, N) == [num |-> colsum + kk * N, den |-> 2 * kk * N]

\* 0.5 * (np.mean(scores / k, axis=0) + 1)
Aggregate(sc, kk, N) ==
  [p \in 1..N |->
     IF kk = 0
     THEN (IF \E q \in 1..N : sc[q][p] = 0 THEN NaN ELSE Inf)
     ELSE Calibrate(ColSum(sc, p, N), kk, N)]

\* scores = np.zeros((N, N))
Zeros(N) == [q \in 1..N |-> [p \in 1..N |-> 0]]

RECURSIVE ScoreRows(_, _, _, _)
\* The accumulator after the iterations for queries 1..q, rows 1..q of it.
ScoreRows(g, lbl, kk, q) ==
  IF q = 0 THEN <<>>
  ELSE Append(ScoreRows(g, lbl, kk, q - 1),
              RowPass(Zeros(Len(lbl))[q], g[q], lbl[q], lbl, kk))

\* _knn_shapley_score as a function of its arguments (k - 1 a legal position).
KnnShapleyScore(g, lbl, kk) ==
  Aggregate(ScoreRows(g, lbl, kk, Len(lbl)), kk, Len(lbl))

\* ---------------------------------------------------------------- neighbour search

\* Euclidean distance between two 1-D feature rows.
Dist(f, a, b) == IF f[a] >= f[b] THEN f[a] - f[b] ELSE f[b] - f[a]

\* The rows kneighbors_graph may store for point q: kk other points, nearest
\* first, ties in any order.
NearestRows(f, q, kk) ==
  LET N == Len(f)
      others == (1..N) \ {q}
  IN {r \in DistinctSeqs(others, kk) :
        /\ \A a \in 1..(kk - 1) : Dist(f, q, r[a]) <= Dist(f, q, r[a + 1])
        /\ \A e \in others :
             (\A a \in 1..kk : r[a] # e) =>
               \A a \in 1..kk : Dist(f, q, r[a]) <= Dist(f, q, e)}

KNeighborsGraphs(f, kk) ==
  GraphsFrom([q \in 1..Len(f) |-> NearestRows(f, q, kk)], Len(f), Len(f))

\* TooManyNeighbors off by one.
TooManyNeighborsOffByOne(kk, f) == kk > Len(f) + 1

\* if k > len(features)
TooManyNeighbors(kk, f) == kk > Len(f)

\* metric = "cosine" if features.shape[1] > 3 else "euclidean"; features are N x 1.
ResolveMetric(mt) == IF mt = "None" THEN (IF 1 > 3 THEN "cosine" ELSE "euclidean") ELSE mt

\* ---------------------------------------------------------------- state machine

Fresh ==
  /\ metric = "None"
  /\ pc = "call"
  /\ scores = None
  /\ i = 0
  /\ visited = <<>>
  /\ result = None
  /\ error = "None"

\* data_shapley_knn(labels) with neither knn_graph nor features.
InitNeither ==
  /\ \E N \in 2..MaxN : labels \in LabelVectors(N)
  /\ knn_graph = None
  /\ features = None
  /\ k \in (0 - MaxNegK)..(MaxN + 1)
  /\ Fresh

\* data_shapley_knn(labels, knn_graph=..., k=...)
InitGraph ==
  /\ \E N \in 2..MaxN :
       /\ labels \in LabelVectors(N)
       /\ \E w \in 1..(N - 1) :
            /\ knn_graph \in NeighborGraphs(N, w)
            /\ k \in (0 - MaxNegK)..(w + 1)
  /\ features = None
  /\ Fresh

\* data_shapley_knn(labels, features=..., k=...)
InitFeatures ==
  /\ \E N \in 2..MaxN :
       /\ labels \in LabelVectors(N)
       /\ features \in [1..N -> 0..MaxCoord]
       /\ k \in (0 - MaxNegK)..(N + 1)
  /\ knn_graph = None
  /\ Fresh

Init == InitNeither \/ InitGraph \/ InitFeatures

\* _knn_shapley_score(knn_graph, labels, k) on a graph whose rows hold exactly
\* k neighbours.
InitValid ==
  /\ \E N \in 2..MaxN :
       /\ labels \in LabelVectors(N)
       /\ \E w \in 1..(N - 1) :
            /\ knn_graph \in NeighborGraphs(N, w)
            /\ k = w
  /\ features = None
  /\ Fresh

\* raise ValueError("Either knn_graph or features must be provided.")
RaiseNoInput ==
  /\ pc = "call"
  /\ knn_graph = None /\ features = None
  /\ pc' = "raised"
  /\ error' = "ValueError"
  /\ UNCHANGED <<labels, knn_graph, features, metric, k, scores, i, visited, result>>

\* knn_graph is None: call _process_knn_graph_from_features.
CallProcess ==
  /\ pc = "call"
  /\ knn_graph = None /\ features # None
  /\ pc' = "process"
  /\ UNCHANGED <<labels, knn_graph, features, metric, k, scores, i, visited, result, error>>

\* A caller's graph goes to _knn_shapley_score as it is.
PassGraph ==
  /\ pc = "call"
  /\ knn_graph # None
  /\ pc' = "score"
  /\ scores' = Zeros(Len(labels))
  /\ UNCHANGED <<labels, knn_graph, features, metric, k, i, visited, result, error>>

\* _process_knn_graph_from_features: k exceeds the number of examples.
ProcessRaise ==
  /\ pc = "process"
  /\ TooManyNeighbors(k, features)
  /\ pc' = "raised"
  /\ error' = "ValueError"
  /\ UNCHANGED <<labels, knn_graph, features, metric, k, scores, i, visited, result>>

\* NearestNeighbors(...).fit(features).kneighbors_graph(mode="distance").
ProcessSearch ==
  /\ pc = "process"
  /\ ~TooManyNeighbors(k, features)
  /\ 1 <= k /\ k <= Len(features) - 1
  /\ metric' = ResolveMetric(metric)
  /\ knn_graph' \in KNeighborsGraphs(features, k)
  /\ pc' = "score"
  /\ scores' = Zeros(Len(labels))
  /\ UNCHANGED <<labels, features, k, i, visited, result, error>>

\* The neighbour search cannot give k neighbours other than the point itself.
ProcessSearchFail ==
  /\ pc = "process"
  /\ ~TooManyNeighbors(k, features)
  /\ ~(1 <= k /\ k <= Len(features) - 1)
  /\ metric' = ResolveMetric(metric)
  /\ pc' = "raised"
  /\ error' = "UnderlyingIndexError"
  /\ UNCHANGED <<labels, knn_graph, features, k, scores, i, visited, result>>

\* One iteration of the loop of _knn_shapley_score, for query point i + 1.
ScoreRow ==
  /\ pc = "score"
  /\ i < Len(labels)
  /\ PyIndexOK(k - 1, RowWidth(knn_graph))
  /\ scores' = [scores EXCEPT
                  ![i + 1] = RowPass(scores[i + 1], knn_graph[i + 1], labels[i + 1], labels, k)]
  /\ visited' = Append(visited, WrittenIdx(knn_graph[i + 1], k))
  /\ i' = i + 1
  /\ UNCHANGED <<labels, knn_graph, features, metric, k, pc, result, error>>

\* idx[k - 1] is out of bounds: numpy raises IndexError.
ScoreIndexError ==
  /\ pc = "score"
  /\ i < Len(labels)
  /\ ~PyIndexOK(k - 1, RowWidth(knn_graph))
  /\ pc' = "raised"
  /\ error' = "IndexError"
  /\ UNCHANGED <<labels, knn_graph, features, metric, k, scores, i, visited, result>>

\* return 0.5 * (np.mean(scores / k, axis=0) + 1)
Return ==
  /\ pc = "score"
  /\ i = Len(labels)
  /\ result' = Aggregate(scores, k, Len(labels))
  /\ pc' = "returned"
  /\ UNCHANGED <<labels, knn_graph, features, metric, k, scores, i, visited, error>>

Next ==
  \/ RaiseNoInput
  \/ CallProcess
  \/ PassGraph
  \/ ProcessRaise
  \/ ProcessSearch
  \/ ProcessSearchFail
  \/ ScoreRow
  \/ ScoreIndexError
  \/ Return

Spec == Init /\ [][Next]_vars

\* The docstring's example call: labels [0,1,0,1,0], features [[0],[1],[2],[3],[4]], k=4.
InitScenario ==
  /\ labels = <<0, 1, 0, 1, 0>>
  /\ features = <<0, 1, 2, 3, 4>>
  /\ knn_graph = None
  /\ k = 4
  /\ Fresh

NextScenario == CallProcess \/ ProcessSearch \/ ScoreRow \/ Return

SpecScenario == InitScenario /\ [][NextScenario]_vars

NextScore == PassGraph \/ ScoreRow \/ Return

SpecScore == InitValid /\ [][NextScore]_vars

\* The same calls, compared with the calls on every relabelling of the points.
SpecRelabel == InitValid /\ [][NextScore]_vars

\* ---------------------------------------------------------------- properties

NPoints == Len(labels)

Rat(n, d) == [num |-> n, den |-> d]

\* Equality of two finite rationals.
RatEq(a, b) == a.den # 0 /\ b.den # 0 /\ a.num * b.den = b.num * a.den

Range(s) == {s[a] : a \in 1..Len(s)}

\* The scoring loop has been entered (a graph is at hand).
Scoring == pc \in {"score", "returned"}

\* A call that returned on a graph whose rows hold exactly k neighbours, k >= 1.
ValidReturned == pc = "returned" /\ k >= 1 /\ RowWidth(knn_graph) = k

\* match[j] of query q, j a 1-based position of idx = reversed row q.
Match(q, j) == IF labels[Reverse(knn_graph[q])[j]] = labels[q] THEN 1 ELSE 0

\* C1: on a returned call with k >= 1 every score lies in [0, 1].
ScoresInUnitInterval ==
  (pc = "returned" /\ k >= 1) =>
    \A p \in 1..NPoints :
      /\ result[p].den > 0
      /\ 0 <= result[p].num
      /\ result[p].num <= result[p].den

ScoresInUnitIntervalWitness ==
  /\ ValidReturned
  /\ NPoints = 3
  /\ \E p \in 1..NPoints : 2 * result[p].num > result[p].den
  /\ \E p \in 1..NPoints : 2 * result[p].num = result[p].den

\* C2: the docstring's example returns [22/40, 21/40, 22/40, 21/40, 22/40]
\* whatever order the neighbour search gives to equal distances.
ScenarioScores ==
  pc = "returned" =>
    /\ Len(result) = 5
    /\ RatEq(result[1], Rat(22, 40))
    /\ RatEq(result[2], Rat(21, 40))
    /\ RatEq(result[3], Rat(22, 40))
    /\ RatEq(result[4], Rat(21, 40))
    /\ RatEq(result[5], Rat(22, 40))

ScenarioScoresWitness ==
  /\ pc = "returned"
  /\ features = <<0, 1, 2, 3, 4>>
  /\ k = 4
  /\ knn_graph[3] = <<4, 2, 5, 1>>

\* Every stored neighbour of every point has the point's label.
AllMatch ==
  \A q \in 1..NPoints : \A j \in 1..RowWidth(knn_graph) : Match(q, j) = 1

\* No stored neighbour of any point has the point's label.
NoMatch ==
  \A q \in 1..NPoints : \A j \in 1..RowWidth(knn_graph) : Match(q, j) = 0

\* The number of rows of the graph that hold p.
InDegree(p) == Cardinality({q \in 1..NPoints : p \in Range(knn_graph[q])})

\* C3 as stated: all neighbours match => every score is 1.0; none => every score is 0.0.
NeutralPointAsStated ==
  ValidReturned =>
    /\ AllMatch => \A p \in 1..NPoints : RatEq(result[p], Rat(1, 1))
    /\ NoMatch => \A p \in 1..NPoints : RatEq(result[p], Rat(0, 1))

\* C3 amended: all neighbours match => the score of p is 0.5 * (1 + d_p / (k*N)),
\* d_p the number of rows holding p; none matches => every score is 0.5.
NeutralPointAmended ==
  ValidReturned =>
    /\ AllMatch =>
         \A p \in 1..NPoints :
           RatEq(result[p], Rat(InDegree(p) + k * NPoints, 2 * k * NPoints))
    /\ NoMatch => \A p \in 1..NPoints : RatEq(result[p], Rat(1, 2))

NeutralPointWitness ==
  /\ ValidReturned
  /\ NPoints = 3
  /\ k = 2
  /\ AllMatch

Perms(N) == DistinctSeqs(1..N, N)

Inverse(pi) == [p \in 1..Len(pi) |-> CHOOSE a \in 1..Len(pi) : pi[a] = p]

\* The sequence s, its entries computed once.
Strict(s) == SubSeq(s, 1, Len(s))

\* Row pi[q] of the relabelled graph is row q with pi applied to every entry.
PermGraph(g, pi) ==
  LET inv == Strict(Inverse(pi))
  IN Strict([p \in 1..Len(g) |-> Strict([j \in 1..Len(g[inv[p]]) |-> pi[g[inv[p]][j]]])])

PermLabels(lbl, pi) ==
  LET inv == Strict(Inverse(pi))
  IN Strict([p \in 1..Len(lbl) |-> lbl[inv[p]]])

\* C4: scoring the input relabelled by any permutation pi gives the scores
\* relabelled by pi.
PermutationInvariance ==
  pc = "returned" =>
    \A pi \in Perms(NPoints) :
      KnnShapleyScore(PermGraph(knn_graph, pi), PermLabels(labels, pi), k)
        = PermLabels(result, pi)

PermutationInvarianceWitness ==
  /\ ValidReturned
  /\ NPoints = 3
  /\ \E p, q \in 1..NPoints : ~RatEq(result[p], result[q])

NoInputs == knn_graph = None /\ features = None

FeaturesTooFew == features # None /\ k > Len(features)

\* C5: with neither input, or features only and k > N, the call raises
\* ValueError and nothing else happens: no search, no scoring, no result.
SizeValidationFirst ==
  (NoInputs \/ FeaturesTooFew) =>
    /\ pc \in {"call", "process", "raised"}
    /\ knn_graph = None /\ metric = "None"
    /\ scores = None /\ i = 0 /\ visited = <<>>
    /\ result = None
    /\ pc = "raised" => error = "ValueError"
    /\ pc = "call" => (ENABLED RaiseNoInput \/ ENABLED CallProcess) /\ ~ENABLED PassGraph
    /\ pc = "process" =>
         ENABLED ProcessRaise /\ ~ENABLED ProcessSearch /\ ~ENABLED ProcessSearchFail

SizeValidationFirstWitness ==
  /\ FeaturesTooFew
  /\ pc = "raised"
  /\ error = "ValueError"

GraphGiven == features = None /\ knn_graph # None

\* C6 as stated: a caller's graph with k < 1 or k above the row width ends in
\* ValueError before any scoring, and never in a score vector.
GraphSizeValidation ==
  (GraphGiven /\ (k < 1 \/ k > RowWidth(knn_graph))) =>
    /\ result = None
    /\ i = 0
    /\ pc = "raised" => error = "ValueError"

\* C7 as stated: the recurrence adds (match[j] - match[j+1]) / k.
RecurrenceAsStated ==
  (Scoring /\ k >= 1) =>
    /\ \A q \in 1..i :
         LET idx == Reverse(knn_graph[q])
         IN /\ scores[q][idx[k]] = Match(q, k)
            /\ \A j \in 1..(k - 1) :
                 k * scores[q][idx[j]] = k * scores[q][idx[j + 1]] + (Match(q, j) - Match(q, j + 1))
    /\ pc = "returned" =>
         \A p \in 1..NPoints :
           RatEq(result[p], Rat(ColSum(scores, p, NPoints) + k * NPoints, 2 * k * NPoints))

\* C7 amended: the recurrence adds match[j] - match[j+1], not divided by k;
\* the final score is 0.5 * (column mean / k + 1).
RecurrenceAmended ==
  (Scoring /\ k >= 1) =>
    /\ \A q \in 1..i :
         LET idx == Reverse(knn_graph[q])
         IN /\ scores[q][idx[k]] = Match(q, k)
            /\ \A j \in 1..(k - 1) :
                 scores[q][idx[j]] = scores[q][idx[j + 1]] + (Match(q, j) - Match(q, j + 1))
    /\ pc = "returned" =>
         \A p \in 1..NPoints :
           RatEq(result[p], Rat(ColSum(scores, p, NPoints) + k * NPoints, 2 * k * NPoints))

RecurrenceWitness ==
  /\ ValidReturned
  /\ k >= 2
  /\ \E q \in 1..NPoints : \E j \in 1..(k - 1) : Match(q, j) # Match(q, j + 1)

\* C8 as stated: for 1 <= k <= row width the entries assigned for a query are
\* its k nearest stored neighbours, the first one assigned being the nearest.
VisitsNearest ==
  (Scoring /\ 1 <= k /\ k <= RowWidth(knn_graph)) =>
    \A q \in 1..i : visited[q] = SubSeq(knn_graph[q], 1, k)

RECURSIVE SparseRow(_, _, _, _, _)
\* Positions j, j-1, .., 1 of idx (1-based): total[idx[j]] += value, the value
\* being the one of position j+1 plus m[j] - m[j+1].
SparseRow(total, idx, m, j, prev) ==
  IF j < 1 THEN total
  ELSE LET val == prev + (m[j] - m[j + 1])
       IN SparseRow([total EXCEPT ![idx[j]] = @ + val], idx, m, j - 1, val)

RECURSIVE SparseTotals(_, _, _, _)
\* The running total after queries 1..q.
SparseTotals(g, lbl, kk, q) ==
  IF q = 0 THEN [p \in 1..Len(lbl) |-> 0]
  ELSE LET idx == Reverse(g[q])
           m == [j \in 1..Len(idx) |-> IF lbl[idx[j]] = lbl[q] THEN 1 ELSE 0]
           t == SparseTotals(g, lbl, kk, q - 1)
       IN SparseRow([t EXCEPT ![idx[kk]] = @ + m[kk]], idx, m, kk - 1, m[kk])

\* The scores of the O(N*k) strategy: 0.5 * (total / N / k + 1).
SparseScore(g, lbl, kk) ==
  [p \in 1..Len(lbl) |->
     Rat(SparseTotals(g, lbl, kk, Len(lbl))[p] + kk * Len(lbl), 2 * kk * Len(lbl))]

\* C9: the running-total strategy gives the scores the dense accumulator gives.
DenseSparseEquivalence ==
  (pc = "returned" /\ k >= 1) =>
    \A p \in 1..NPoints : RatEq(result[p], SparseScore(knn_graph, labels, k)[p])

DenseSparseEquivalenceWitness ==
  /\ ValidReturned
  /\ NPoints = 3
  /\ k = 2
  /\ \E p \in 1..NPoints : InDegree(p) = 2 /\ ColSum(scores, p, NPoints) = 1

\* c_p: the queries that assign p's entry and have p's label.
SameLabelVisitors(p) ==
  Cardinality({q \in 1..Len(visited) : p \in Range(visited[q]) /\ labels[q] = labels[p]})

\* Graph g with row q replaced by r.
WithRow(g, q, r) == [g EXCEPT ![q] = r]

====
